---- MODULE Spec2Model ----
(***************************************************************************)
(* State machine of the Hunt Map front end: the App component (basemap     *)
(* style and layer visibility flags), the Sidebar's layer toggles and the  *)
(* MapComponent (feature popup, measurement tool, style-load tracking).    *)
(* One action per event handler; React re-renders after every handler, so  *)
(* each handler sees the state its predecessor left.                       *)
(***************************************************************************)
EXTENDS Integers, Sequences, FiniteSets, TLC

\* ------------------------------------------------------------------ bounds
\* longest measurement line the model follows
MaxPoints == 2
\* number of layer checkbox changes the model follows
MaxToggles == 1

\* --------------------------------------------------------------- constants
STYLE_TERRAIN == "mapbox://styles/mapbox/outdoors-v12"
STYLE_SATELLITE == "mapbox://styles/cjlinville/cmljzr1ps004l01sp15xj9941"

\* JavaScript null and undefined. TLC compares values of one type only, so
\* null is written per type of the state it can stand in: object, string, timer id
\* (the code tests the timer reference for truthiness; timer ids are positive)
null == <<>>
nullString == "null"
nullTimer == 0
undefined == "undefined"

\* the visibility flags held by App
FlagNames ==
    {"showLocalDistricts", "showNHD", "showMTRoads", "showTrails",
     "showPublicLands", "showNAIP", "showBHS", "showElevationBands",
     "showSlopeMask", "showParcels", "showHabitatSuitability"}

\* years the NAIP <select> offers: the first two and the last of its nine options
NaipYears == {"2023", "2021", "2005"}

\* ToggleFlag with the Public Lands toggle handed the setter of MT Parcels
ToggleFlagMiswired ==
    [l \in {"Hunting Districts", "Public Lands", "MT Parcels", "MT Highway/Roads",
            "Forest Service Trails", "NHD Hydrography", "Bighorn Sheep Distribution",
            "Elevation Bands", "Steep Slope", "Habitat Suitability Index"} |->
        CASE l = "Hunting Districts" -> "showLocalDistricts"
          [] l = "Public Lands" -> "showParcels"
          [] l = "MT Parcels" -> "showParcels"
          [] l = "MT Highway/Roads" -> "showMTRoads"
          [] l = "Forest Service Trails" -> "showTrails"
          [] l = "NHD Hydrography" -> "showNHD"
          [] l = "Bighorn Sheep Distribution" -> "showBHS"
          [] l = "Elevation Bands" -> "showElevationBands"
          [] l = "Steep Slope" -> "showSlopeMask"
          [] l = "Habitat Suitability Index" -> "showHabitatSuitability"]

\* label of each LayerToggle of the sidebar and the flag its onChange sets
ToggleFlag ==
    [l \in {"Hunting Districts", "Public Lands", "MT Parcels", "MT Highway/Roads",
            "Forest Service Trails", "NHD Hydrography", "Bighorn Sheep Distribution",
            "Elevation Bands", "Steep Slope", "Habitat Suitability Index"} |->
        CASE l = "Hunting Districts" -> "showLocalDistricts"
          [] l = "Public Lands" -> "showPublicLands"
          [] l = "MT Parcels" -> "showParcels"
          [] l = "MT Highway/Roads" -> "showMTRoads"
          [] l = "Forest Service Trails" -> "showTrails"
          [] l = "NHD Hydrography" -> "showNHD"
          [] l = "Bighorn Sheep Distribution" -> "showBHS"
          [] l = "Elevation Bands" -> "showElevationBands"
          [] l = "Steep Slope" -> "showSlopeMask"
          [] l = "Habitat Suitability Index" -> "showHabitatSuitability"]

ToggleLabels == DOMAIN ToggleFlag

\* the CollapsibleSection each LayerToggle is a child of
ToggleSection ==
    [l \in ToggleLabels |->
        IF l \in {"Hunting Districts", "Public Lands", "MT Parcels"}
            THEN "Regulation and Land"
        ELSE IF l \in {"MT Highway/Roads", "Forest Service Trails"}
            THEN "Access"
        ELSE "Habitat"]

SectionTitles == {"Regulation and Land", "Access", "Habitat"}

\* the contents of /data/habitat_suitability.json
SuitabilityData == [bounds |-> <<<<0, 1>>, <<1, 1>>, <<1, 0>>, <<0, 0>>>>, url |-> "/data/habitat_suitability.png"]

\* positions a pointer event can report (event.lngLat)
LngLats == {[lng |-> -115, lat |-> 48], [lng |-> -114, lat |-> 49]}

\* the LayerToggles whose information button is pressed: one of each section
InfoLabels == {"Public Lands", "Forest Service Trails", "Habitat Suitability Index"}

\* ---------------------------------------------------------------- state
VARIABLES
    \* App
    mapStyle, show, naipYear, isSidebarOpen,
    \* Sidebar, CollapsibleSection, LayerToggle
    activeTab, showInfoTab, sectionIsOpen, isInfoExpanded,
    \* MapComponent
    popupInfo, suitabilityMeta, selectedTrailName, isMeasuring,
    measurementPoints, measurementUnit, isStyleLoaded, styleLoadTimer,
    \* browser and map widget
    timers, mapIsStyleLoaded, loadFired, suitabilityFetch,
    toggleCount, lastEvent

appVars == <<mapStyle, show, naipYear, isSidebarOpen>>
sidebarVars == <<activeTab, showInfoTab, sectionIsOpen, isInfoExpanded>>
interactionVars == <<popupInfo, selectedTrailName, isMeasuring, measurementPoints, measurementUnit>>
styleVars == <<isStyleLoaded, styleLoadTimer, timers, mapIsStyleLoaded, loadFired>>
fetchVars == <<suitabilityMeta, suitabilityFetch>>
vars == <<appVars, sidebarVars, interactionVars, styleVars, fetchVars, toggleCount, lastEvent>>

\* the handler (or step of the map widget) that ran last, with its event object
Event(handler, event) == [handler |-> handler, event |-> event]

Init ==
    /\ mapStyle = STYLE_TERRAIN
    /\ show = [f \in FlagNames |->
                f \in {"showLocalDistricts", "showNHD", "showMTRoads", "showTrails", "showPublicLands"}]
    /\ naipYear = "2023"
    /\ isSidebarOpen = FALSE
    /\ activeTab = "Layers"
    /\ showInfoTab = nullString
    /\ sectionIsOpen = [s \in SectionTitles |-> TRUE]
    /\ isInfoExpanded = [l \in ToggleLabels |-> FALSE]
    /\ popupInfo = null
    /\ suitabilityMeta = null
    /\ selectedTrailName = nullString
    /\ isMeasuring = FALSE
    /\ measurementPoints = <<>>
    /\ measurementUnit = "miles"
    /\ isStyleLoaded = FALSE
    /\ styleLoadTimer = nullTimer
    /\ timers = {}
    /\ mapIsStyleLoaded = FALSE
    /\ loadFired = FALSE
    /\ suitabilityFetch = "pending"
    /\ toggleCount = 0
    /\ lastEvent = Event("mount", null)

\* ------------------------------------------------------- derived values
\* a || null
OrNull(v) == IF v \in {undefined, nullString, ""} THEN nullString ELSE v

\* interactiveLayerIds without the flowline hit layer
interactiveLayerIdsNoFlowline ==
    (IF show.showElevationBands THEN <<"elevation-bands">> ELSE <<>>)
    \o (IF show.showSlopeMask THEN <<"slope-mask">> ELSE <<>>)
    \o (IF show.showPublicLands THEN <<"public-lands">> ELSE <<>>)
    \o (IF show.showParcels THEN <<"parcels-labels">> ELSE <<>>)
    \o (IF show.showBHS THEN <<"bhs-distribution">> ELSE <<>>)
    \o (IF show.showMTRoads THEN <<"mt-roads-hit">> ELSE <<>>)
    \o (IF show.showNHD THEN <<"nhd-waterbody-fill">> ELSE <<>>)
    \o (IF show.showTrails THEN <<"fs-trails-hit">> ELSE <<>>)
    \o (IF show.showLocalDistricts THEN <<"hunting-district-hit">> ELSE <<>>)
    \o (IF show.showHabitatSuitability THEN <<"habitat-suitability">> ELSE <<>>)

\* the memoised id list handed to <Map interactiveLayerIds=...>
interactiveLayerIds ==
    (IF show.showElevationBands THEN <<"elevation-bands">> ELSE <<>>)
    \o (IF show.showSlopeMask THEN <<"slope-mask">> ELSE <<>>)
    \o (IF show.showPublicLands THEN <<"public-lands">> ELSE <<>>)
    \o (IF show.showParcels THEN <<"parcels-labels">> ELSE <<>>)
    \o (IF show.showBHS THEN <<"bhs-distribution">> ELSE <<>>)
    \o (IF show.showMTRoads THEN <<"mt-roads-hit">> ELSE <<>>)
    \o (IF show.showNHD THEN <<"nhd-waterbody-fill", "nhd-flowline-hit">> ELSE <<>>)
    \o (IF show.showTrails THEN <<"fs-trails-hit">> ELSE <<>>)
    \o (IF show.showLocalDistricts THEN <<"hunting-district-hit">> ELSE <<>>)
    \o (IF show.showHabitatSuitability THEN <<"habitat-suitability">> ELSE <<>>)

\* turf's distance between two positions in the given unit, in thousandths of
\* the unit: the great-circle distance of its haversine formula, which is 0
\* between equal positions and 82.883 miles, or 145873.115 yards, between the
\* two positions of LngLats
turfDistance(from, to, units) ==
    IF from = to THEN 0
    ELSE IF units = "miles" THEN 82883 ELSE 145873115

\* turf.length of a line string: the sum of the distances of its segments
RECURSIVE turfLength(_, _)
turfLength(coordinates, units) ==
    IF Len(coordinates) < 2 THEN 0
    ELSE turfDistance(coordinates[1], coordinates[2], units)
            + turfLength(Tail(coordinates), units)

\* totalDistance measuring in miles whatever the unit
totalDistanceMilesOnly ==
    IF Len(measurementPoints) < 2 THEN 0
    ELSE turfLength(measurementPoints, "miles")

\* the totalDistance memo, in thousandths of measurementUnit
totalDistance ==
    IF Len(measurementPoints) < 2 THEN 0
    ELSE turfLength(measurementPoints, measurementUnit)

\* Number.prototype.toFixed on a value in thousandths: the count of units of
\* 10^-digits nearest to it (digits is 0 or 2 here)
toFixed(x, digits) ==
    LET step == IF digits = 2 THEN 10 ELSE 1000
    IN  (x + step \div 2) \div step

\* the number in the distance readout: hundredths of a mile, or whole yards
DistanceReadout ==
    toFixed(totalDistance, IF measurementUnit = "miles" THEN 2 ELSE 0)

\* RenderedSources with the habitat source rendered before its metadata arrived
RenderedSourcesNoMeta ==
    IF ~isStyleLoaded THEN {}
    ELSE
        (IF Len(measurementPoints) > 0 THEN {"measurement"} ELSE {})
        \cup (IF show.showNAIP THEN {"naip-" \o naipYear} ELSE {})
        \cup (IF show.showElevationBands THEN {"elevation-bands"} ELSE {})
        \cup (IF show.showSlopeMask THEN {"slope-mask"} ELSE {})
        \cup (IF show.showHabitatSuitability THEN {"habitat-suitability"} ELSE {})
        \cup (IF show.showPublicLands THEN {"public-lands"} ELSE {})
        \cup (IF show.showParcels THEN {"parcels"} ELSE {})
        \cup (IF show.showBHS THEN {"bhs-distribution"} ELSE {})
        \cup (IF show.showMTRoads THEN {"mt-roads"} ELSE {})
        \cup (IF show.showNHD THEN {"nhd-waterbodies", "nhd-flowlines"} ELSE {})
        \cup (IF show.showTrails THEN {"fs-trails"} ELSE {})
        \cup (IF show.showLocalDistricts THEN {"hunting-district"} ELSE {})

\* ids of the <Source> elements the render function returns
RenderedSources ==
    IF ~isStyleLoaded THEN {}
    ELSE
        (IF Len(measurementPoints) > 0 THEN {"measurement"} ELSE {})
        \cup (IF show.showNAIP THEN {"naip-" \o naipYear} ELSE {})
        \cup (IF show.showElevationBands THEN {"elevation-bands"} ELSE {})
        \cup (IF show.showSlopeMask THEN {"slope-mask"} ELSE {})
        \cup (IF show.showHabitatSuitability /\ suitabilityMeta # null
                THEN {"habitat-suitability"} ELSE {})
        \cup (IF show.showPublicLands THEN {"public-lands"} ELSE {})
        \cup (IF show.showParcels THEN {"parcels"} ELSE {})
        \cup (IF show.showBHS THEN {"bhs-distribution"} ELSE {})
        \cup (IF show.showMTRoads THEN {"mt-roads"} ELSE {})
        \cup (IF show.showNHD THEN {"nhd-waterbodies", "nhd-flowlines"} ELSE {})
        \cup (IF show.showTrails THEN {"fs-trails"} ELSE {})
        \cup (IF show.showLocalDistricts THEN {"hunting-district"} ELSE {})

\* SourceLayers with the roads source drawn without its hit layer
SourceLayersNoRoadsHit(src) ==
    CASE src = "measurement" -> {"measurement-line", "measurement-points"}
      [] src = "elevation-bands" -> {"elevation-bands"}
      [] src = "slope-mask" -> {"slope-mask"}
      [] src = "habitat-suitability" -> {"habitat-suitability"}
      [] src = "public-lands" -> {"public-lands"}
      [] src = "parcels" -> {"parcels", "parcels-labels"}
      [] src = "bhs-distribution" -> {"bhs-distribution"}
      [] src = "mt-roads" -> {"mt-roads", "mt-roads-label"}
      [] src = "nhd-waterbodies" -> {"nhd-waterbody-fill", "nhd-waterbody-outline"}
      [] src = "nhd-flowlines" -> {"nhd-flowline", "nhd-flowline-label", "nhd-flowline-hit"}
      [] src = "fs-trails" ->
            (IF selectedTrailName # nullString THEN {"fs-trails-halo"} ELSE {})
            \cup {"fs-trails", "fs-trails-label", "fs-trails-hit"}
      [] src = "hunting-district" ->
            {"hunting-district-line", "hunting-district-label", "hunting-district-hit"}
      [] OTHER -> {"naip-layer-" \o naipYear}

\* the <Layer> elements each <Source> element has as children
SourceLayers(src) ==
    CASE src = "measurement" -> {"measurement-line", "measurement-points"}
      [] src = "elevation-bands" -> {"elevation-bands"}
      [] src = "slope-mask" -> {"slope-mask"}
      [] src = "habitat-suitability" -> {"habitat-suitability"}
      [] src = "public-lands" -> {"public-lands"}
      [] src = "parcels" -> {"parcels", "parcels-labels"}
      [] src = "bhs-distribution" -> {"bhs-distribution"}
      [] src = "mt-roads" -> {"mt-roads", "mt-roads-label", "mt-roads-hit"}
      [] src = "nhd-waterbodies" -> {"nhd-waterbody-fill", "nhd-waterbody-outline"}
      [] src = "nhd-flowlines" -> {"nhd-flowline", "nhd-flowline-label", "nhd-flowline-hit"}
      [] src = "fs-trails" ->
            (IF selectedTrailName # nullString THEN {"fs-trails-halo"} ELSE {})
            \cup {"fs-trails", "fs-trails-label", "fs-trails-hit"}
      [] src = "hunting-district" ->
            {"hunting-district-line", "hunting-district-label", "hunting-district-hit"}
      [] OTHER -> {"naip-layer-" \o naipYear}

\* ids of the <Layer> elements the render function returns
RenderedLayers == UNION {SourceLayers(src) : src \in RenderedSources}

\* features of the static data files that a click can hit, each with the layer
\* that draws it: three trails (one without a Name), a road, a public-land
\* polygon and a bighorn-sheep range
Features ==
    {[layer |-> [id |-> "fs-trails-hit"], properties |-> [Name |-> n]] :
        n \in {"Trail 7", "Trail 9", undefined}}
    \cup {[layer |-> [id |-> "mt-roads-hit"], properties |-> [Name |-> "US 93"]]}
    \cup {[layer |-> [id |-> l], properties |-> [Name |-> undefined]] :
            l \in {"public-lands", "bhs-distribution"}}

\* event.features drawn from every feature, whatever is interactive or drawn
ClickFeaturesUnfiltered ==
    {<<>>} \cup {<<f>> : f \in Features}

\* what a click can report in event.features: the features under the pointer
\* that belong to layers both interactive and drawn, or none
ClickFeatures ==
    {<<>>} \cup
    {<<f>> : f \in {g \in Features :
                       /\ g.layer.id \in RenderedLayers
                       /\ \E i \in 1..Len(interactiveLayerIds) :
                             interactiveLayerIds[i] = g.layer.id}}


\* ------------------------------------------------------------- Sidebar
\* a LayerToggle is in the document while the Layers tab and its section are open
ToggleShown(label) == activeTab = "Layers" /\ sectionIsOpen[ToggleSection[label]]

\* LayerToggle: onChange(e.target.checked) through the setter App passed; the
\* checkbox is controlled, so e.target.checked is the negation of the flag
LayerToggleOnChange(label) ==
    /\ ToggleShown(label)
    /\ toggleCount < MaxToggles
    /\ show' = [show EXCEPT ![ToggleFlag[label]] = ~show[ToggleFlag[label]]]
    /\ toggleCount' = toggleCount + 1
    /\ lastEvent' = Event("LayerToggle.onChange", [label |-> label])
    /\ UNCHANGED <<mapStyle, naipYear, isSidebarOpen, sidebarVars, interactionVars,
                   styleVars, fetchVars>>

\* the NAIP Imagery checkbox: setShowNAIP(e.target.checked)
NaipOnChange ==
    /\ activeTab = "Layers"
    /\ toggleCount < MaxToggles
    /\ show' = [show EXCEPT !.showNAIP = ~show.showNAIP]
    /\ toggleCount' = toggleCount + 1
    /\ lastEvent' = Event("LayerToggle.onChange", [label |-> "NAIP Imagery"])
    /\ UNCHANGED <<mapStyle, naipYear, isSidebarOpen, sidebarVars, interactionVars,
                   styleVars, fetchVars>>

\* the NAIP year <select>, shown while showNAIP: setNaipYear(e.target.value)
NaipYearOnChange(year) ==
    /\ activeTab = "Layers"
    /\ show.showNAIP
    /\ year # naipYear
    /\ naipYear' = year
    /\ lastEvent' = Event("select.onChange", [value |-> year])
    /\ UNCHANGED <<mapStyle, show, isSidebarOpen, sidebarVars, interactionVars,
                   styleVars, fetchVars, toggleCount>>

\* the menu button working as a switch: it closes an open sidebar
MenuButtonToggles ==
    /\ isSidebarOpen' = ~isSidebarOpen
    /\ lastEvent' = Event("Menu.onClick", null)
    /\ UNCHANGED <<mapStyle, show, naipYear, sidebarVars, interactionVars,
                   styleVars, fetchVars, toggleCount>>

\* App's mobile menu button: setIsSidebarOpen(true)
MenuButtonOnClick ==
    /\ isSidebarOpen' = TRUE
    /\ lastEvent' = Event("Menu.onClick", null)
    /\ UNCHANGED <<mapStyle, show, naipYear, sidebarVars, interactionVars,
                   styleVars, fetchVars, toggleCount>>

\* whether App renders the mobile backdrop
BackdropRendered == isSidebarOpen

\* a click on the backdrop: setIsSidebarOpen(false)
BackdropOnClick ==
    /\ BackdropRendered
    /\ isSidebarOpen' = FALSE
    /\ lastEvent' = Event("Backdrop.onClick", null)
    /\ UNCHANGED <<mapStyle, show, naipYear, sidebarVars, interactionVars,
                   styleVars, fetchVars, toggleCount>>

\* the sidebar's close button: onClose, which is setIsSidebarOpen(false)
SidebarCloseButtonOnClick ==
    /\ isSidebarOpen' = FALSE
    /\ lastEvent' = Event("Sidebar.onClose", null)
    /\ UNCHANGED <<mapStyle, show, naipYear, sidebarVars, interactionVars,
                   styleVars, fetchVars, toggleCount>>

\* a SidebarItem: setActiveTab(tab); leaving the Layers tab unmounts its
\* sections and toggles, whose state starts afresh when they are mounted again
SidebarItemOnClick(tab) ==
    /\ activeTab' = tab
    /\ IF tab = "About"
       THEN /\ sectionIsOpen' = [s \in SectionTitles |-> TRUE]
            /\ isInfoExpanded' = [l \in ToggleLabels |-> FALSE]
       ELSE UNCHANGED <<sectionIsOpen, isInfoExpanded>>
    /\ lastEvent' = Event("SidebarItem.onClick", [label |-> tab])
    /\ UNCHANGED <<showInfoTab, appVars, interactionVars, styleVars, fetchVars,
                   toggleCount>>

\* a section header that also hides the layers of the section it collapses
CollapsibleSectionHidesLayers(title) ==
    /\ activeTab = "Layers"
    /\ sectionIsOpen' = [sectionIsOpen EXCEPT ![title] = ~sectionIsOpen[title]]
    /\ isInfoExpanded' =
        [l \in ToggleLabels |->
            IF ToggleSection[l] = title THEN FALSE ELSE isInfoExpanded[l]]
    /\ show' = [f \in FlagNames |->
                IF sectionIsOpen[title]
                   /\ \E l \in ToggleLabels : ToggleSection[l] = title /\ ToggleFlag[l] = f
                THEN FALSE ELSE show[f]]
    /\ lastEvent' = Event("CollapsibleSection.onClick", [title |-> title])
    /\ UNCHANGED <<activeTab, showInfoTab, mapStyle, naipYear, isSidebarOpen,
                   interactionVars, styleVars, fetchVars, toggleCount>>

\* a CollapsibleSection header: setIsOpen(!isOpen); a closed section unmounts
\* its LayerToggles, whose isInfoExpanded starts false when mounted again
CollapsibleSectionOnClick(title) ==
    /\ activeTab = "Layers"
    /\ sectionIsOpen' = [sectionIsOpen EXCEPT ![title] = ~sectionIsOpen[title]]
    /\ isInfoExpanded' =
        [l \in ToggleLabels |->
            IF ToggleSection[l] = title THEN FALSE ELSE isInfoExpanded[l]]
    /\ lastEvent' = Event("CollapsibleSection.onClick", [title |-> title])
    /\ UNCHANGED <<activeTab, showInfoTab, appVars, interactionVars, styleVars,
                   fetchVars, toggleCount>>

\* the information button of a LayerToggle: setIsInfoExpanded(!isInfoExpanded)
LayerInfoOnClick(label) ==
    /\ ToggleShown(label)
    /\ isInfoExpanded' = [isInfoExpanded EXCEPT ![label] = ~isInfoExpanded[label]]
    /\ lastEvent' = Event("LayerInfo.onClick", [label |-> label])
    /\ UNCHANGED <<activeTab, showInfoTab, sectionIsOpen, appVars, interactionVars,
                   styleVars, fetchVars, toggleCount>>

\* the information button of the NAIP row
NaipInfoOnClick ==
    /\ activeTab = "Layers"
    /\ showInfoTab' = IF showInfoTab = "NAIP Imagery" THEN nullString ELSE "NAIP Imagery"
    /\ lastEvent' = Event("NaipInfo.onClick", null)
    /\ UNCHANGED <<activeTab, sectionIsOpen, isInfoExpanded, appVars, interactionVars,
                   styleVars, fetchVars, toggleCount>>

\* -------------------------------------------------------- MapComponent
\* onClick putting the new vertex in front of the list
onClickPrepend(event) ==
    LET feature == IF Len(event.features) = 0 THEN null ELSE event.features[1]
    IN  IF isMeasuring
        THEN /\ measurementPoints' =
                    <<<<event.lngLat.lng, event.lngLat.lat>>>> \o measurementPoints
             /\ UNCHANGED <<popupInfo, selectedTrailName>>
        ELSE IF feature # null
        THEN /\ popupInfo' = [feature |-> feature, lngLat |-> event.lngLat]
             /\ selectedTrailName' =
                    IF feature.layer.id = "fs-trails-hit"
                    THEN OrNull(feature.properties.Name)
                    ELSE selectedTrailName
             /\ UNCHANGED measurementPoints
        ELSE /\ popupInfo' = null
             /\ selectedTrailName' = nullString
             /\ UNCHANGED measurementPoints

\* onClick keeping the feature of a popup that is already open
onClickKeepsOpenPopup(event) ==
    LET feature == IF Len(event.features) = 0 THEN null ELSE event.features[1]
    IN  IF isMeasuring
        THEN /\ measurementPoints' =
                    Append(measurementPoints, <<event.lngLat.lng, event.lngLat.lat>>)
             /\ UNCHANGED <<popupInfo, selectedTrailName>>
        ELSE IF feature # null
        THEN /\ popupInfo' =
                    IF popupInfo # null
                    THEN [feature |-> popupInfo.feature, lngLat |-> event.lngLat]
                    ELSE [feature |-> feature, lngLat |-> event.lngLat]
             /\ selectedTrailName' =
                    IF feature.layer.id = "fs-trails-hit"
                    THEN OrNull(feature.properties.Name)
                    ELSE selectedTrailName
             /\ UNCHANGED measurementPoints
        ELSE /\ popupInfo' = null
             /\ selectedTrailName' = nullString
             /\ UNCHANGED measurementPoints

\* onClick without the return that ends the measuring branch
onClickNoReturn(event) ==
    LET feature == IF Len(event.features) = 0 THEN null ELSE event.features[1]
    IN  /\ measurementPoints' =
               IF isMeasuring
               THEN Append(measurementPoints, <<event.lngLat.lng, event.lngLat.lat>>)
               ELSE measurementPoints
        /\ IF feature # null
           THEN /\ popupInfo' = [feature |-> feature, lngLat |-> event.lngLat]
                /\ selectedTrailName' =
                       IF feature.layer.id = "fs-trails-hit"
                       THEN OrNull(feature.properties.Name)
                       ELSE selectedTrailName
           ELSE /\ popupInfo' = null
                /\ selectedTrailName' = nullString

\* onClick whose else branch closes the popup and keeps the trail selection
onClickKeepsTrail(event) ==
    LET feature == IF Len(event.features) = 0 THEN null ELSE event.features[1]
    IN  IF isMeasuring
        THEN /\ measurementPoints' =
                    Append(measurementPoints, <<event.lngLat.lng, event.lngLat.lat>>)
             /\ UNCHANGED <<popupInfo, selectedTrailName>>
        ELSE IF feature # null
        THEN /\ popupInfo' = [feature |-> feature, lngLat |-> event.lngLat]
             /\ selectedTrailName' =
                    IF feature.layer.id = "fs-trails-hit"
                    THEN OrNull(feature.properties.Name)
                    ELSE selectedTrailName
             /\ UNCHANGED measurementPoints
        ELSE /\ popupInfo' = null
             /\ UNCHANGED <<selectedTrailName, measurementPoints>>

\* onClick selecting the Name of the clicked feature whatever its layer
onClickAnyLayerSelects(event) ==
    LET feature == IF Len(event.features) = 0 THEN null ELSE event.features[1]
    IN  IF isMeasuring
        THEN /\ measurementPoints' =
                    Append(measurementPoints, <<event.lngLat.lng, event.lngLat.lat>>)
             /\ UNCHANGED <<popupInfo, selectedTrailName>>
        ELSE IF feature # null
        THEN /\ popupInfo' = [feature |-> feature, lngLat |-> event.lngLat]
             /\ selectedTrailName' = OrNull(feature.properties.Name)
             /\ UNCHANGED measurementPoints
        ELSE /\ popupInfo' = null
             /\ selectedTrailName' = nullString
             /\ UNCHANGED measurementPoints

\* Map onClick
onClick(event) ==
    LET feature == IF Len(event.features) = 0 THEN null ELSE event.features[1]
    IN  IF isMeasuring
        THEN /\ measurementPoints' =
                    Append(measurementPoints, <<event.lngLat.lng, event.lngLat.lat>>)
             /\ UNCHANGED <<popupInfo, selectedTrailName>>
        ELSE IF feature # null
        THEN /\ popupInfo' = [feature |-> feature, lngLat |-> event.lngLat]
             /\ selectedTrailName' =
                    IF feature.layer.id = "fs-trails-hit"
                    THEN OrNull(feature.properties.Name)
                    ELSE selectedTrailName
             /\ UNCHANGED measurementPoints
        ELSE /\ popupInfo' = null
             /\ selectedTrailName' = nullString
             /\ UNCHANGED measurementPoints

\* a click on the map, at any position and on any feature drawn there
MapClick ==
    \E lngLat \in LngLats, features \in ClickFeatures :
        /\ isMeasuring => Len(measurementPoints) < MaxPoints
        /\ onClick([lngLat |-> lngLat, features |-> features])
        /\ lastEvent' = Event("onClick", [lngLat |-> lngLat, features |-> features])
        /\ UNCHANGED <<isMeasuring, measurementUnit, appVars, sidebarVars, styleVars,
                       fetchVars, toggleCount>>

\* the Measure button leaving an open popup open
MeasureButtonKeepsPopup ==
    /\ isMeasuring' = ~isMeasuring
    /\ lastEvent' = Event("Measure.onClick", null)
    /\ UNCHANGED <<popupInfo, selectedTrailName, measurementPoints, measurementUnit,
                   appVars, sidebarVars, styleVars, fetchVars, toggleCount>>

\* the Measure button dropping the drawn line when it is pressed
MeasureButtonClearsPoints ==
    /\ isMeasuring' = ~isMeasuring
    /\ popupInfo' = IF ~isMeasuring THEN null ELSE popupInfo
    /\ measurementPoints' = <<>>
    /\ lastEvent' = Event("Measure.onClick", null)
    /\ UNCHANGED <<selectedTrailName, measurementUnit, appVars,
                   sidebarVars, styleVars, fetchVars, toggleCount>>

\* the Measure button
MeasureButtonOnClick ==
    /\ isMeasuring' = ~isMeasuring
    /\ popupInfo' = IF ~isMeasuring THEN null ELSE popupInfo
    /\ lastEvent' = Event("Measure.onClick", null)
    /\ UNCHANGED <<selectedTrailName, measurementPoints, measurementUnit, appVars,
                   sidebarVars, styleVars, fetchVars, toggleCount>>

\* the distance readout setting the unit to yards whatever it was
DistanceReadoutToYards ==
    /\ Len(measurementPoints) > 0
    /\ measurementUnit' = "yards"
    /\ lastEvent' = Event("Distance.onClick", null)
    /\ UNCHANGED <<popupInfo, selectedTrailName, isMeasuring, measurementPoints,
                   appVars, sidebarVars, styleVars, fetchVars, toggleCount>>

\* the distance readout, shown while the line has a vertex
DistanceReadoutOnClick ==
    /\ Len(measurementPoints) > 0
    /\ measurementUnit' = IF measurementUnit = "miles" THEN "yards" ELSE "miles"
    /\ lastEvent' = Event("Distance.onClick", null)
    /\ UNCHANGED <<popupInfo, selectedTrailName, isMeasuring, measurementPoints,
                   appVars, sidebarVars, styleVars, fetchVars, toggleCount>>

\* the Clear measurements button inside the readout (stops propagation)
ClearButtonOnClick ==
    /\ Len(measurementPoints) > 0
    /\ measurementPoints' = <<>>
    /\ lastEvent' = Event("Clear.onClick", null)
    /\ UNCHANGED <<popupInfo, selectedTrailName, isMeasuring, measurementUnit,
                   appVars, sidebarVars, styleVars, fetchVars, toggleCount>>

\* Popup onClose
PopupOnClose ==
    /\ popupInfo # null
    /\ popupInfo' = null
    /\ lastEvent' = Event("Popup.onClose", null)
    /\ UNCHANGED <<selectedTrailName, isMeasuring, measurementPoints, measurementUnit,
                   appVars, sidebarVars, styleVars, fetchVars, toggleCount>>

\* a close button that also drops the trail selection
PopupCloseClearsTrail ==
    /\ popupInfo # null
    /\ popupInfo' = null
    /\ selectedTrailName' = nullString
    /\ lastEvent' = Event("PopupX.onClick", null)
    /\ UNCHANGED <<isMeasuring, measurementPoints, measurementUnit,
                   appVars, sidebarVars, styleVars, fetchVars, toggleCount>>

\* the X button in the popup header
PopupCloseButtonOnClick ==
    /\ popupInfo # null
    /\ popupInfo' = null
    /\ lastEvent' = Event("PopupX.onClick", null)
    /\ UNCHANGED <<selectedTrailName, isMeasuring, measurementPoints, measurementUnit,
                   appVars, sidebarVars, styleVars, fetchVars, toggleCount>>

\* what setTimeout returns: an id no live timer or reference holds
NewTimerId == CHOOSE id \in 1..(Cardinality(timers) + 2) : id \notin timers \cup {styleLoadTimer}

\* toggleMapStyle that always selects the satellite style
toggleMapStyleOneWay ==
    /\ timers' = IF styleLoadTimer # nullTimer THEN timers \ {styleLoadTimer} ELSE timers
    /\ isStyleLoaded' = FALSE
    /\ mapStyle' = STYLE_SATELLITE
    /\ mapIsStyleLoaded' = FALSE
    /\ lastEvent' = Event("toggleMapStyle", null)
    /\ UNCHANGED <<styleLoadTimer, loadFired, show, naipYear, isSidebarOpen,
                   sidebarVars, interactionVars, fetchVars, toggleCount>>

\* toggleMapStyle that leaves a pending timer running
toggleMapStyleNoCancel ==
    /\ isStyleLoaded' = FALSE
    /\ mapStyle' = IF mapStyle = STYLE_TERRAIN THEN STYLE_SATELLITE ELSE STYLE_TERRAIN
    /\ mapIsStyleLoaded' = FALSE
    /\ lastEvent' = Event("toggleMapStyle", null)
    /\ UNCHANGED <<styleLoadTimer, timers, loadFired, show, naipYear, isSidebarOpen,
                   sidebarVars, interactionVars, fetchVars, toggleCount>>

\* the Basemap toggle button; the map widget starts loading the new style
toggleMapStyle ==
    /\ timers' = IF styleLoadTimer # nullTimer THEN timers \ {styleLoadTimer} ELSE timers
    /\ isStyleLoaded' = FALSE
    /\ mapStyle' = IF mapStyle = STYLE_TERRAIN THEN STYLE_SATELLITE ELSE STYLE_TERRAIN
    /\ mapIsStyleLoaded' = FALSE
    /\ lastEvent' = Event("toggleMapStyle", null)
    /\ UNCHANGED <<styleLoadTimer, loadFired, show, naipYear, isSidebarOpen,
                   sidebarVars, interactionVars, fetchVars, toggleCount>>

\* Map onLoad: the widget's load event, fired once, after its first style loaded
onLoad ==
    /\ ~loadFired
    /\ mapIsStyleLoaded
    /\ loadFired' = TRUE
    /\ isStyleLoaded' = TRUE
    /\ lastEvent' = Event("onLoad", null)
    /\ UNCHANGED <<styleLoadTimer, timers, mapIsStyleLoaded, appVars,
                   sidebarVars, interactionVars, fetchVars, toggleCount>>

\* onStyleData scheduling a timer whatever the timer reference holds
onStyleDataNoRefCheck ==
    /\ IF ~isStyleLoaded
       THEN /\ styleLoadTimer' = NewTimerId
            /\ timers' = timers \cup {NewTimerId}
       ELSE UNCHANGED <<styleLoadTimer, timers>>
    /\ lastEvent' = Event("onStyleData", [dataType |-> "style"])
    /\ UNCHANGED <<isStyleLoaded, mapIsStyleLoaded, loadFired, appVars, sidebarVars,
                   interactionVars, fetchVars, toggleCount>>

\* Map onStyleData for an event with dataType 'style'
onStyleData ==
    /\ IF styleLoadTimer = nullTimer /\ ~isStyleLoaded
       THEN /\ styleLoadTimer' = NewTimerId
            /\ timers' = timers \cup {NewTimerId}
       ELSE UNCHANGED <<styleLoadTimer, timers>>
    /\ lastEvent' = Event("onStyleData", [dataType |-> "style"])
    /\ UNCHANGED <<isStyleLoaded, mapIsStyleLoaded, loadFired, appVars, sidebarVars,
                   interactionVars, fetchVars, toggleCount>>

\* the timer callback setting isStyleLoaded without asking the map
StyleLoadTimeoutUnchecked(id) ==
    /\ id \in timers
    /\ timers' = timers \ {id}
    /\ isStyleLoaded' = TRUE
    /\ styleLoadTimer' = nullTimer
    /\ lastEvent' = Event("setTimeout", [id |-> id])
    /\ UNCHANGED <<mapIsStyleLoaded, loadFired, appVars, sidebarVars,
                   interactionVars, fetchVars, toggleCount>>

\* the callback onStyleData handed to setTimeout, run when timer id fires
StyleLoadTimeout(id) ==
    /\ id \in timers
    /\ timers' = timers \ {id}
    /\ isStyleLoaded' = IF mapIsStyleLoaded THEN TRUE ELSE isStyleLoaded
    /\ styleLoadTimer' = nullTimer
    /\ lastEvent' = Event("setTimeout", [id |-> id])
    /\ UNCHANGED <<mapIsStyleLoaded, loadFired, appVars, sidebarVars,
                   interactionVars, fetchVars, toggleCount>>

\* the map widget finishes loading its style: map.isStyleLoaded() turns true
MapStyleLoads ==
    /\ ~mapIsStyleLoaded
    /\ mapIsStyleLoaded' = TRUE
    /\ lastEvent' = Event("map.style.load", null)
    /\ UNCHANGED <<isStyleLoaded, styleLoadTimer, timers, loadFired, appVars,
                   sidebarVars, interactionVars, fetchVars, toggleCount>>

\* the map widget reloads part of its style: map.isStyleLoaded() turns false
MapStyleReloads ==
    /\ mapIsStyleLoaded
    /\ mapIsStyleLoaded' = FALSE
    /\ lastEvent' = Event("map.style.reload", null)
    /\ UNCHANGED <<isStyleLoaded, styleLoadTimer, timers, loadFired, appVars,
                   sidebarVars, interactionVars, fetchVars, toggleCount>>

\* the suitability metadata fetch resolves: setSuitabilityMeta(data)
SuitabilityFetchResolves ==
    /\ suitabilityFetch = "pending"
    /\ suitabilityFetch' = "resolved"
    /\ suitabilityMeta' = SuitabilityData
    /\ lastEvent' = Event("fetch.then", null)
    /\ UNCHANGED <<appVars, sidebarVars, interactionVars, styleVars, toggleCount>>

\* a rejected fetch that installs the metadata all the same
SuitabilityFetchRejectsWithData ==
    /\ suitabilityFetch = "pending"
    /\ suitabilityFetch' = "rejected"
    /\ suitabilityMeta' = SuitabilityData
    /\ lastEvent' = Event("fetch.catch", null)
    /\ UNCHANGED <<appVars, sidebarVars, interactionVars, styleVars, toggleCount>>

\* the fetch or res.json() rejects: the error is logged
SuitabilityFetchRejects ==
    /\ suitabilityFetch = "pending"
    /\ suitabilityFetch' = "rejected"
    /\ lastEvent' = Event("fetch.catch", null)
    /\ UNCHANGED <<suitabilityMeta, appVars, sidebarVars, interactionVars, styleVars,
                   toggleCount>>

\* ------------------------------------------------------- specifications
\* the MapComponent with the props App gives it at construction: every handler
\* of the component, the timers it sets, its fetch and the map widget
Next ==
    \/ MapClick
    \/ MeasureButtonOnClick
    \/ DistanceReadoutOnClick
    \/ ClearButtonOnClick
    \/ PopupOnClose
    \/ PopupCloseButtonOnClick
    \/ toggleMapStyle
    \/ onLoad
    \/ onStyleData
    \/ \E id \in timers : StyleLoadTimeout(id)
    \/ MapStyleLoads
    \/ MapStyleReloads
    \/ SuitabilityFetchResolves
    \/ SuitabilityFetchRejects

Spec == Init /\ [][Next]_vars

\* App with the Sidebar's layer controls and the MapComponent under the
\* basemap it starts with
LayersNext ==
    \/ \E label \in ToggleLabels : LayerToggleOnChange(label)
    \/ NaipOnChange
    \/ \E year \in NaipYears : NaipYearOnChange(year)
    \/ MapClick
    \/ MeasureButtonOnClick
    \/ DistanceReadoutOnClick
    \/ ClearButtonOnClick
    \/ PopupOnClose
    \/ PopupCloseButtonOnClick
    \/ onLoad
    \/ MapStyleLoads
    \/ SuitabilityFetchResolves
    \/ SuitabilityFetchRejects

SpecLayers == Init /\ [][LayersNext]_vars

\* the style-load tracking of the MapComponent under the scheduling the browser
\* and the map widget provide: a pending timer fires, the load event is
\* delivered once the first style is loaded, and a style data event that
\* changes something is delivered
StyleNext ==
    \/ toggleMapStyle
    \/ onLoad
    \/ onStyleData
    \/ \E id \in timers : StyleLoadTimeout(id)
    \/ MapStyleLoads
    \/ MapStyleReloads
    \/ SuitabilityFetchResolves
    \/ SuitabilityFetchRejects

SpecStyleFair ==
    /\ Init
    /\ [][StyleNext]_vars
    /\ WF_vars(onStyleData)
    /\ WF_vars(\E id \in timers : StyleLoadTimeout(id))
    /\ WF_vars(onLoad)

\* the measurement tool next to the controls that act on other state: the
\* layer checkboxes, the year select and the basemap button
MeasureNext ==
    \/ MapClick
    \/ MeasureButtonOnClick
    \/ DistanceReadoutOnClick
    \/ ClearButtonOnClick
    \/ \E label \in ToggleLabels : LayerToggleOnChange(label)
    \/ NaipOnChange
    \/ \E year \in NaipYears : NaipYearOnChange(year)
    \/ toggleMapStyle

SpecMeasure == Init /\ [][MeasureNext]_vars

\* the MapComponent mounted with any values of the visibility props, and the
\* checkboxes and the year select that change them
InitFlags ==
    /\ mapStyle = STYLE_TERRAIN
    /\ show \in [FlagNames -> BOOLEAN]
    /\ naipYear = "2023"
    /\ isSidebarOpen = FALSE
    /\ activeTab = "Layers"
    /\ showInfoTab = nullString
    /\ sectionIsOpen = [s \in SectionTitles |-> TRUE]
    /\ isInfoExpanded = [l \in ToggleLabels |-> FALSE]
    /\ popupInfo = null
    /\ suitabilityMeta = null
    /\ selectedTrailName = nullString
    /\ isMeasuring = FALSE
    /\ measurementPoints = <<>>
    /\ measurementUnit = "miles"
    /\ isStyleLoaded = FALSE
    /\ styleLoadTimer = nullTimer
    /\ timers = {}
    /\ mapIsStyleLoaded = FALSE
    /\ loadFired = FALSE
    /\ suitabilityFetch = "pending"
    /\ toggleCount = 0
    /\ lastEvent = Event("mount", null)

FlagsNext ==
    \/ \E label \in ToggleLabels : LayerToggleOnChange(label)
    \/ NaipOnChange
    \/ \E year \in NaipYears : NaipYearOnChange(year)

SpecFlags == InitFlags /\ [][FlagsNext]_vars

\* App and Sidebar: the controls of the sidebar's presentation next to the
\* layer checkboxes, with the map loading its first style underneath
SidebarNext ==
    \/ MenuButtonOnClick
    \/ BackdropOnClick
    \/ SidebarCloseButtonOnClick
    \/ \E tab \in {"About", "Layers"} : SidebarItemOnClick(tab)
    \/ \E title \in SectionTitles : CollapsibleSectionOnClick(title)
    \/ \E label \in InfoLabels : LayerInfoOnClick(label)
    \/ NaipInfoOnClick
    \/ \E label \in ToggleLabels : LayerToggleOnChange(label)
    \/ NaipOnChange
    \/ \E year \in NaipYears : NaipYearOnChange(year)
    \/ MapStyleLoads
    \/ onLoad

SpecSidebar == Init /\ [][SidebarNext]_vars

\* ---------------------------------------------------------------- claims
\* the position of a click event as a vertex
Vertex(lngLat) == <<lngLat.lng, lngLat.lat>>

\* C1: a map click while isMeasuring appends the vertex [lng, lat] of the click
\* to the end of measurementPoints: the length grows by one and the earlier
\* vertices keep their values and their order
C1_ClickAppendsVertex ==
    [][(isMeasuring /\ lastEvent'.handler = "onClick") =>
        /\ Len(measurementPoints') = Len(measurementPoints) + 1
        /\ measurementPoints'[Len(measurementPoints')] = Vertex(lastEvent'.event.lngLat)
        /\ \A i \in 1..Len(measurementPoints) :
              measurementPoints'[i] = measurementPoints[i]]_vars

C1_Witness ==
    /\ isMeasuring
    /\ lastEvent.handler = "onClick"
    /\ Len(measurementPoints) = 2
    /\ measurementPoints[1] # measurementPoints[2]
    /\ measurementPoints[2] = Vertex(lastEvent.event.lngLat)

\* C2: a map click on a feature while measurement mode is off sets popupInfo
\* to that feature and the click's coordinates, whatever popup was open; and
\* popupInfo takes a new non-null value through such a click only
C2_ClickOpensPopup ==
    [][/\ (~isMeasuring /\ lastEvent'.handler = "onClick"
            /\ Len(lastEvent'.event.features) > 0) =>
                popupInfo' = [feature |-> lastEvent'.event.features[1],
                              lngLat |-> lastEvent'.event.lngLat]
       /\ (popupInfo' # null /\ popupInfo' # popupInfo) =>
                /\ lastEvent'.handler = "onClick"
                /\ Len(lastEvent'.event.features) > 0
                /\ popupInfo'.feature = lastEvent'.event.features[1]]_vars

C2_Witness ==
    /\ ~isMeasuring
    /\ lastEvent.handler = "onClick"
    /\ Len(lastEvent.event.features) > 0
    /\ popupInfo # null
    /\ popupInfo.feature.layer.id = "mt-roads-hit"
    /\ selectedTrailName # nullString

\* the flag each toggle of the sidebar stands for
C3_OwnFlag(label) ==
    CASE label = "Hunting Districts" -> "showLocalDistricts"
      [] label = "Public Lands" -> "showPublicLands"
      [] label = "MT Parcels" -> "showParcels"
      [] label = "MT Highway/Roads" -> "showMTRoads"
      [] label = "Forest Service Trails" -> "showTrails"
      [] label = "NHD Hydrography" -> "showNHD"
      [] label = "Bighorn Sheep Distribution" -> "showBHS"
      [] label = "Elevation Bands" -> "showElevationBands"
      [] label = "Steep Slope" -> "showSlopeMask"
      [] label = "Habitat Suitability Index" -> "showHabitatSuitability"
      [] label = "NAIP Imagery" -> "showNAIP"

\* C3: a layer toggle of the sidebar inverts its own visibility flag and leaves
\* the other ten flags, naipYear, mapStyle, popupInfo and the measurement
\* state as they were
C3_ToggleChangesOwnFlagOnly ==
    [][lastEvent'.handler = "LayerToggle.onChange" =>
        LET own == C3_OwnFlag(lastEvent'.event.label)
        IN  /\ show'[own] = ~show[own]
            /\ \A f \in FlagNames \ {own} : show'[f] = show[f]
            /\ UNCHANGED <<naipYear, mapStyle, popupInfo, isMeasuring,
                           measurementPoints, measurementUnit>>]_vars

C3_Witness ==
    /\ lastEvent.handler = "LayerToggle.onChange"
    /\ lastEvent.event.label = "Public Lands"
    /\ ~show.showPublicLands
    /\ popupInfo # null
    /\ Len(measurementPoints) > 0

\* the sources each visibility flag stands for
C4_SourcesOf(flag) ==
    CASE flag = "showLocalDistricts" -> {"hunting-district"}
      [] flag = "showNHD" -> {"nhd-waterbodies", "nhd-flowlines"}
      [] flag = "showMTRoads" -> {"mt-roads"}
      [] flag = "showTrails" -> {"fs-trails"}
      [] flag = "showPublicLands" -> {"public-lands"}
      [] flag = "showNAIP" -> {"naip-" \o naipYear}
      [] flag = "showBHS" -> {"bhs-distribution"}
      [] flag = "showElevationBands" -> {"elevation-bands"}
      [] flag = "showSlopeMask" -> {"slope-mask"}
      [] flag = "showParcels" -> {"parcels"}
      [] flag = "showHabitatSuitability" -> {"habitat-suitability"}

\* C4: an overlay's sources are rendered exactly when its flag and
\* isStyleLoaded are true, the habitat-suitability source only when
\* suitabilityMeta is non-null as well; nothing is rendered while
\* isStyleLoaded is false
C4_RenderedIffVisibleAndLoaded ==
    /\ \A f \in FlagNames : \A src \in C4_SourcesOf(f) :
          src \in RenderedSources <=>
              /\ show[f]
              /\ isStyleLoaded
              /\ (f = "showHabitatSuitability" => suitabilityMeta # null)
    /\ ~isStyleLoaded => RenderedSources = {}

C4_Witness ==
    /\ isStyleLoaded
    /\ show.showHabitatSuitability
    /\ suitabilityMeta = null
    /\ suitabilityFetch = "pending"
    /\ "habitat-suitability" \notin RenderedSources
    /\ "public-lands" \in RenderedSources

\* C5: mapStyle starts as STYLE_TERRAIN, is always one of the two styles, and
\* every press of the basemap button switches it to the other one
C5_BasemapToggles ==
    /\ mapStyle = STYLE_TERRAIN
    /\ [](mapStyle \in {STYLE_TERRAIN, STYLE_SATELLITE})
    /\ [][lastEvent'.handler = "toggleMapStyle" => mapStyle' # mapStyle]_vars

C5_Witness ==
    /\ lastEvent.handler = "toggleMapStyle"
    /\ mapStyle = STYLE_TERRAIN

\* C6: once the basemap toggles have stopped and map.isStyleLoaded() stays
\* true (style data events keep arriving by fairness), isStyleLoaded becomes
\* true and stays true
C6_StyleEventuallyLoaded ==
    <>[](mapIsStyleLoaded /\ lastEvent.handler # "toggleMapStyle") => <>[]isStyleLoaded

\* C7: measurementUnit starts as 'miles', is always 'miles' or 'yards', and a
\* click on the distance readout flips it and leaves measurementPoints and
\* isMeasuring as they were
C7_UnitFlips ==
    /\ measurementUnit = "miles"
    /\ [](measurementUnit \in {"miles", "yards"})
    /\ [][lastEvent'.handler = "Distance.onClick" =>
            /\ measurementUnit' # measurementUnit
            /\ UNCHANGED <<measurementPoints, isMeasuring>>]_vars

C7_Witness ==
    /\ lastEvent.handler = "Distance.onClick"
    /\ measurementUnit = "miles"
    /\ Len(measurementPoints) > 0

\* C8: a map click while isMeasuring changes measurementPoints and nothing
\* else, on a feature or not
C8_MeasuringClickFrame ==
    [][(isMeasuring /\ lastEvent'.handler = "onClick") =>
        UNCHANGED <<popupInfo, selectedTrailName, isMeasuring, measurementUnit,
                    appVars, sidebarVars, styleVars, fetchVars>>]_vars

C8_Witness ==
    /\ isMeasuring
    /\ lastEvent.handler = "onClick"
    /\ Len(lastEvent.event.features) > 0
    /\ lastEvent.event.features[1].layer.id = "fs-trails-hit"
    /\ selectedTrailName = nullString
    /\ Len(measurementPoints) > 0

\* C9: whenever isMeasuring is true, popupInfo is null
C9_MeasuringExcludesPopup == isMeasuring => popupInfo = null

C9_Witness ==
    /\ isMeasuring
    /\ lastEvent.handler = "onClick"
    /\ Len(lastEvent.event.features) > 0
    /\ popupInfo = null

\* C10: a map click that hits no feature while measurement mode is off leaves
\* popupInfo null and selectedTrailName null
C10_EmptyClickClears ==
    [][(~isMeasuring /\ lastEvent'.handler = "onClick"
        /\ Len(lastEvent'.event.features) = 0) =>
            /\ popupInfo' = null
            /\ selectedTrailName' = nullString]_vars

C10_Witness ==
    /\ ~isMeasuring
    /\ lastEvent.handler = "onClick"
    /\ Len(lastEvent.event.features) = 0
    /\ isStyleLoaded
    /\ popupInfo = null
    /\ selectedTrailName = nullString

\* C11: with measurement mode off, a click on a feature of fs-trails-hit sets
\* selectedTrailName to the feature's Name, or to null when it has none; a
\* click on a feature of another layer leaves it as it was; the halo layer is
\* rendered only while showTrails is true and selectedTrailName is non-null
C11_TrailSelection ==
    /\ [][(~isMeasuring /\ lastEvent'.handler = "onClick"
           /\ Len(lastEvent'.event.features) > 0) =>
            LET feature == lastEvent'.event.features[1]
            IN  IF feature.layer.id = "fs-trails-hit"
                THEN selectedTrailName' =
                        IF feature.properties.Name = undefined
                        THEN nullString ELSE feature.properties.Name
                ELSE selectedTrailName' = selectedTrailName]_vars
    /\ []("fs-trails-halo" \in RenderedLayers =>
            show.showTrails /\ selectedTrailName # nullString)

C11_Witness ==
    /\ ~isMeasuring
    /\ lastEvent.handler = "onClick"
    /\ Len(lastEvent.event.features) > 0
    /\ lastEvent.event.features[1].layer.id = "mt-roads-hit"
    /\ selectedTrailName = "Trail 9"
    /\ "fs-trails-halo" \in RenderedLayers

\* C12: closing the popup, by its close button or by its onClose event, sets
\* popupInfo to null and changes nothing else: the trail selection, the
\* measurement state, the layer flags and the style state stay as they were
C12_PopupCloseFrame ==
    [][lastEvent'.handler \in {"Popup.onClose", "PopupX.onClick"} =>
        /\ popupInfo' = null
        /\ UNCHANGED <<selectedTrailName, isMeasuring, measurementPoints,
                       measurementUnit, appVars, sidebarVars, styleVars,
                       fetchVars>>]_vars

C12_Witness ==
    /\ lastEvent.handler = "PopupX.onClick"
    /\ popupInfo = null
    /\ selectedTrailName = "Trail 7"
    /\ Len(measurementPoints) = 1
    /\ isStyleLoaded

\* the visibility flag under which each interactive layer is listed and drawn
C13_LayerFlag ==
    [l \in {"elevation-bands", "slope-mask", "public-lands", "parcels-labels",
            "bhs-distribution", "mt-roads-hit", "nhd-waterbody-fill",
            "nhd-flowline-hit", "fs-trails-hit", "hunting-district-hit",
            "habitat-suitability"} |->
        CASE l = "elevation-bands" -> "showElevationBands"
          [] l = "slope-mask" -> "showSlopeMask"
          [] l = "public-lands" -> "showPublicLands"
          [] l = "parcels-labels" -> "showParcels"
          [] l = "bhs-distribution" -> "showBHS"
          [] l = "mt-roads-hit" -> "showMTRoads"
          [] l \in {"nhd-waterbody-fill", "nhd-flowline-hit"} -> "showNHD"
          [] l = "fs-trails-hit" -> "showTrails"
          [] l = "hunting-district-hit" -> "showLocalDistricts"
          [] OTHER -> "showHabitatSuitability"]

\* C13 as stated: whenever a popup is open, the visibility flag of the layer
\* the clicked feature belongs to is true
C13_PopupLayerVisible ==
    popupInfo # null => show[C13_LayerFlag[popupInfo.feature.layer.id]]

\* C13 as the code has it: in the state a click leaves when it opens or
\* replaces the popup, the visibility flag of the clicked feature's layer is
\* true; a later layer toggle may hide the layer while the popup stays open
C13_PopupLayerVisibleAtClick ==
    (lastEvent.handler = "onClick" /\ popupInfo # null) =>
        show[C13_LayerFlag[popupInfo.feature.layer.id]]

C13_Witness ==
    /\ lastEvent.handler = "onClick"
    /\ popupInfo # null
    /\ popupInfo.feature.layer.id = "bhs-distribution"
    /\ show.showBHS

\* C14: measurementPoints changes only by a measuring click, which appends,
\* and by the Clear measurements button, which empties it; the Measure button,
\* the unit flip, the layer checkboxes, the year select and the basemap button
\* leave the list as it is; the clear button leaves isMeasuring and
\* measurementUnit unchanged
C14_OnlyClearEmpties ==
    [][/\ measurementPoints' # measurementPoints =>
            \/ /\ isMeasuring
               /\ lastEvent'.handler = "onClick"
               /\ measurementPoints' =
                    Append(measurementPoints, Vertex(lastEvent'.event.lngLat))
            \/ /\ lastEvent'.handler = "Clear.onClick"
               /\ measurementPoints' = <<>>
       /\ lastEvent'.handler \in {"Measure.onClick", "Distance.onClick",
                                  "LayerToggle.onChange", "select.onChange",
                                  "toggleMapStyle"} =>
            measurementPoints' = measurementPoints
       /\ lastEvent'.handler = "Clear.onClick" =>
            /\ measurementPoints' = <<>>
            /\ UNCHANGED <<isMeasuring, measurementUnit>>]_vars

C14_Witness ==
    /\ Len(measurementPoints) = 2
    /\ measurementPoints[1] # measurementPoints[2]
    /\ ~isMeasuring
    /\ measurementUnit = "yards"
    /\ toggleCount > 0
    /\ lastEvent.handler = "toggleMapStyle"

\* length of the polyline through the points in their order, in thousandths
\* of the unit: the distances of consecutive points added up from the first
C15_PolylineLength(points, unit) ==
    LET sum[i \in 0..(Len(points) - 1)] ==
            IF i = 0 THEN 0
            ELSE sum[i - 1] + turfDistance(points[i], points[i + 1], unit)
    IN  sum[Len(points) - 1]

C16_OneTimer ==
    /\ [](Cardinality(timers) <= 1)
    /\ [][timers' \ timers # {} =>
            /\ lastEvent'.handler = "onStyleData"
            /\ timers = {}
            /\ styleLoadTimer = nullTimer
            /\ ~isStyleLoaded
            /\ timers' = {styleLoadTimer'}]_vars

C16_Witness ==
    /\ lastEvent.handler = "onStyleData"
    /\ timers = {styleLoadTimer}
    /\ ~isStyleLoaded
    /\ mapStyle = STYLE_SATELLITE
    /\ loadFired

\* C17: styleLoadTimer.current is non-null exactly when a timer callback is
\* pending, and then it denotes that timer; in particular it does not keep
\* the id of a timer that toggleMapStyle cancelled
C17_RefDenotesPendingTimer ==
    /\ (styleLoadTimer # nullTimer) <=> (timers # {})
    /\ styleLoadTimer # nullTimer => styleLoadTimer \in timers

\* C18: every basemap toggle sets isStyleLoaded to false and cancels the
\* pending timer, so that no timer scheduled before the toggle is left to set
\* isStyleLoaded to true after it: a timer that fires after a toggle was
\* scheduled after it
C18_ToggleCancelsTimer ==
    [][lastEvent'.handler = "toggleMapStyle" =>
        /\ ~isStyleLoaded'
        /\ timers' = {}]_vars

C18_Witness ==
    /\ lastEvent.handler = "toggleMapStyle"
    /\ styleLoadTimer # nullTimer
    /\ timers = {}
    /\ ~isStyleLoaded
    /\ mapStyle = STYLE_TERRAIN

\* C19: when the timer fires, isStyleLoaded is set to true only if
\* map.isStyleLoaded() is true at that moment, and is left as it was
\* otherwise; in both cases styleLoadTimer.current is reset to null
C19_TimerFires ==
    [][lastEvent'.handler = "setTimeout" =>
        /\ isStyleLoaded' = (isStyleLoaded \/ mapIsStyleLoaded)
        /\ styleLoadTimer' = nullTimer
        /\ lastEvent'.event.id \notin timers']_vars

C19_Witness ==
    /\ lastEvent.handler = "setTimeout"
    /\ ~isStyleLoaded
    /\ ~mapIsStyleLoaded
    /\ styleLoadTimer = nullTimer
    /\ timers = {}

\* the interactive layer ids each visibility flag stands for
C20_FlagIds ==
    [f \in FlagNames \ {"showNAIP"} |->
        CASE f = "showElevationBands" -> {"elevation-bands"}
          [] f = "showSlopeMask" -> {"slope-mask"}
          [] f = "showPublicLands" -> {"public-lands"}
          [] f = "showParcels" -> {"parcels-labels"}
          [] f = "showBHS" -> {"bhs-distribution"}
          [] f = "showMTRoads" -> {"mt-roads-hit"}
          [] f = "showNHD" -> {"nhd-waterbody-fill", "nhd-flowline-hit"}
          [] f = "showTrails" -> {"fs-trails-hit"}
          [] f = "showLocalDistricts" -> {"hunting-district-hit"}
          [] OTHER -> {"habitat-suitability"}]

\* C20: interactiveLayerIds is determined by the visibility flags alone: it
\* holds each listed id exactly when its flag is true, both NHD ids exactly
\* when showNHD is true, no other id, no id twice, and never the id of a NAIP
\* or measurement layer
C20_InteractiveIds ==
    LET ids == interactiveLayerIds
        idSet == {ids[i] : i \in 1..Len(ids)}
    IN  /\ \A f \in DOMAIN C20_FlagIds :
                \A l \in C20_FlagIds[f] : (l \in idSet) <=> show[f]
        /\ idSet \subseteq UNION {C20_FlagIds[f] : f \in DOMAIN C20_FlagIds}
        /\ \A i, j \in 1..Len(ids) : ids[i] = ids[j] => i = j
        /\ idSet \cap ({"naip-layer-" \o y : y \in NaipYears}
                        \cup {"measurement-line", "measurement-points"}) = {}

C20_Witness ==
    /\ lastEvent.handler = "LayerToggle.onChange"
    /\ lastEvent.event.label = "MT Parcels"
    /\ show.showParcels
    /\ show.showNHD
    /\ ~show.showTrails
    /\ show.showNAIP
    /\ Len(interactiveLayerIds) = 3

\* the ids of interactiveLayerIds as a set
C21_InteractiveIdSet ==
    {interactiveLayerIds[i] : i \in 1..Len(interactiveLayerIds)}

\* C21 as stated: in every reachable state every id in interactiveLayerIds is
\* the id of a layer that is rendered
C21_InteractiveRendered ==
    C21_InteractiveIdSet \subseteq RenderedLayers

\* C21 as the code has it: while isStyleLoaded is true every id in
\* interactiveLayerIds other than habitat-suitability is the id of a rendered
\* layer, and habitat-suitability is too once suitabilityMeta has arrived;
\* while isStyleLoaded is false no layer is rendered, whatever the list holds
C21_InteractiveRenderedWhenLoaded ==
    /\ isStyleLoaded =>
        /\ C21_InteractiveIdSet \ {"habitat-suitability"} \subseteq RenderedLayers
        /\ "habitat-suitability" \in RenderedLayers <=>
            (show.showHabitatSuitability /\ suitabilityMeta # null)
    /\ ~isStyleLoaded => RenderedLayers = {}

C21_Witness ==
    /\ isStyleLoaded
    /\ show.showHabitatSuitability
    /\ suitabilityMeta = null
    /\ "habitat-suitability" \in C21_InteractiveIdSet
    /\ "habitat-suitability" \notin RenderedLayers
    /\ "mt-roads-hit" \in RenderedLayers

\* C22: when the fetch of the suitability metadata fails, the error is only
\* logged: the step changes no state of the component, suitabilityMeta is
\* null from then on, the habitat-suitability source and layer are never
\* rendered whatever showHabitatSuitability is, and the other layers are
\* rendered as their flags and isStyleLoaded say
C22_FetchFailure ==
    /\ [][lastEvent'.handler = "fetch.catch" =>
            /\ suitabilityMeta' = null
            /\ UNCHANGED <<appVars, sidebarVars, interactionVars, styleVars>>
            /\ RenderedLayers' = RenderedLayers]_vars
    /\ [][suitabilityFetch = "rejected" =>
            suitabilityFetch' = "rejected" /\ suitabilityMeta' = null]_vars
    /\ [](suitabilityFetch = "rejected" =>
            /\ suitabilityMeta = null
            /\ "habitat-suitability" \notin RenderedSources
            /\ "habitat-suitability" \notin RenderedLayers
            /\ isStyleLoaded =>
                C21_InteractiveIdSet \ {"habitat-suitability"} \subseteq RenderedLayers)

C22_Witness ==
    /\ suitabilityFetch = "rejected"
    /\ show.showHabitatSuitability
    /\ isStyleLoaded
    /\ "habitat-suitability" \notin RenderedLayers
    /\ "fs-trails" \in RenderedLayers
    /\ lastEvent.handler = "LayerToggle.onChange"

\* every variable of the program but the sidebar's open flag
C23_Rest ==
    <<mapStyle, show, naipYear, sidebarVars, interactionVars, styleVars, fetchVars>>

\* C23: the sidebar starts closed; isSidebarOpen turns true only by the menu
\* button and false only by the sidebar's close button or a click on the
\* backdrop; the backdrop is rendered exactly while isSidebarOpen is true;
\* opening an open sidebar or closing a closed one changes nothing
C23_SidebarOpenClose ==
    /\ ~isSidebarOpen
    /\ [](BackdropRendered <=> isSidebarOpen)
    /\ [][/\ (~isSidebarOpen /\ isSidebarOpen') => lastEvent'.handler = "Menu.onClick"
          /\ (isSidebarOpen /\ ~isSidebarOpen') =>
                lastEvent'.handler \in {"Sidebar.onClose", "Backdrop.onClick"}
          /\ lastEvent'.handler = "Menu.onClick" =>
                isSidebarOpen' /\ UNCHANGED C23_Rest
          /\ lastEvent'.handler \in {"Sidebar.onClose", "Backdrop.onClick"} =>
                ~isSidebarOpen' /\ UNCHANGED C23_Rest]_vars

C23_Witness ==
    /\ lastEvent.handler = "Backdrop.onClick"
    /\ ~isSidebarOpen
    /\ ~BackdropRendered
    /\ activeTab = "About"
    /\ show.showParcels

\* C24: the interactions that concern the sidebar's presentation alone
\* (opening or closing it, switching tabs, collapsing or expanding a layer
\* group, showing or hiding a layer's information text) change no visibility
\* flag, nor naipYear, nor mapStyle, and leave the rendered sources and layers
\* as they were
C24_PresentationFrame ==
    [][lastEvent'.handler \in {"Menu.onClick", "Backdrop.onClick", "Sidebar.onClose",
                               "SidebarItem.onClick", "CollapsibleSection.onClick",
                               "LayerInfo.onClick", "NaipInfo.onClick"} =>
        /\ UNCHANGED <<show, naipYear, mapStyle>>
        /\ RenderedSources' = RenderedSources
        /\ RenderedLayers' = RenderedLayers]_vars

C24_Witness ==
    /\ lastEvent.handler = "CollapsibleSection.onClick"
    /\ ~sectionIsOpen["Access"]
    /\ isStyleLoaded
    /\ show.showTrails
    /\ ~show.showPublicLands
    /\ "fs-trails" \in RenderedLayers

====
